---- MODULE Spec2Model ----
(***************************************************************************)
(* The repository consists of four headers: two constants.h tables         *)
(* (Arm_Rev_B, IMU_Control) and two RTOStasks.h prototype lists            *)
(* (FPI_Control, MC_Command_Servo).  Their meaning is what a C++           *)
(* translation unit obtains by reading them top to bottom: a macro table,  *)
(* a table of constexpr objects and a set of function declarations.  The   *)
(* model is that reading, one directive or declaration per step.           *)
(***************************************************************************)
EXTENDS Integers, Sequences, FiniteSets, TLC

VARIABLES file, pc, cond, partial, macros, once, consts, bound, declared, complete

vars == <<file, pc, cond, partial, macros, once, consts, bound, declared, complete>>

ArmRevB    == "Projects/Arm_Rev_B/main/constants.h"
ImuControl == "Projects/IMU_Control/main/constants.h"
FpiControl == "Projects/FPI_Control/main/RTOStasks.h"
McServo    == "Projects/MC_Command_Servo/main/RTOStasks.h"

ConstantsHeaders == {ArmRevB, ImuControl}
TaskHeaders      == {FpiControl, McServo}
Headers          == ConstantsHeaders \cup TaskHeaders
None             == "none"

(***************************************************************************)
(* Literals as written in the source: sign, base, integer digits and (for  *)
(* a floating literal) the digits after the point.                         *)
(***************************************************************************)
NoTok  == [neg |-> FALSE, base |-> 10, int |-> <<>>, frac |-> <<>>]
Hex(ds) == [neg |-> FALSE, base |-> 16, int |-> ds, frac |-> <<>>]
Dec(ds) == [neg |-> FALSE, base |-> 10, int |-> ds, frac |-> <<>>]
Flt(ds, fs) == [neg |-> FALSE, base |-> 10, int |-> ds, frac |-> fs]
Neg(t) == [t EXCEPT !.neg = TRUE]

(* One line of a header. *)
Line(l, k, n, ty, t) == [line |-> l, kind |-> k, name |-> n, type |-> ty, tok |-> t]
Define(l, n, t)      == Line(l, "define", n, "", t)
DefineHex(l, n, ds)  == Define(l, n, Hex(ds))
Constexpr(l, ty, n, t) == Line(l, "constexpr", n, ty, t)
Proto(l, n)          == Line(l, "decl", n, "void(void*)", NoTok)
Text(l)              == Line(l, "text", "", "", NoTok)
Ifndef(l, n)         == Line(l, "ifndef", n, "", NoTok)
Ifdef(l, n)          == Line(l, "ifdef", n, "", NoTok)
Endif(l)             == Line(l, "endif", "", "", NoTok)
PragmaOnce(l)        == Line(l, "pragma_once", "", "", NoTok)

(***************************************************************************)
(* Projects/Arm_Rev_B/main/constants.h                                     *)
(***************************************************************************)
ArmRevB_Eeprom ==
  << PragmaOnce(9),
     DefineHex(10, "EEPROM_SIZE", <<6, 4>>),
     DefineHex(12, "BEGINING_ADDR", <<0, 0>>) >>

ArmRevB_Bno055Head ==
  << DefineHex(14, "BNO055_CHIP_ID", <<0, 0>>),
     DefineHex(15, "BNO055_ACC_ID", <<0, 1>>),
     DefineHex(16, "BNO055_PAGE_ID", <<0, 7>>),
     DefineHex(17, "BNO055_ADDR0", <<2, 8>>),
     DefineHex(18, "BNO055_ADDR1", <<2, 9>>),
     DefineHex(19, "BNO055_OPR_MODE", <<3, 13>>),
     DefineHex(20, "BNO055_PWR_MODE", <<3, 14>>),
     DefineHex(21, "BNO055_SYS_TRIGGER", <<3, 15>>) >>

(* Variant: the actuator enable pin put on the right wrist's signal pin. *)
ArmRevB_Actuator_PinClash ==
  << Define(23, "act_PHASE", Dec(<<5>>)),
     Define(24, "act_ENABLE", Dec(<<1, 6>>)) >>

ArmRevB_Actuator ==
  << Define(23, "act_PHASE", Dec(<<5>>)),
     Define(24, "act_ENABLE", Dec(<<1, 7>>)) >>

ArmRevB_Rotunda ==
  << Constexpr(28, "int", "kRotundaPin", Dec(<<1, 9>>)),
     Constexpr(29, "int", "kRotundaPosMin", Dec(<<0>>)),
     Constexpr(30, "int", "kRotundaPosmax", Dec(<<3, 6, 0, 0>>)),
     Constexpr(31, "double", "kRotundaStartPos", Dec(<<1, 8, 0, 0>>)),
     Constexpr(32, "double", "kRotundaStartDuty", Flt(<<5, 0>>, <<0>>)),
     Constexpr(33, "double", "kRotundaFreq", Dec(<<5, 0>>)),
     Constexpr(34, "double", "kRotundaPWMMin", Flt(<<2>>, <<5>>)),
     Constexpr(35, "double", "kRotundaPWMMax", Flt(<<1, 2>>, <<5>>)) >>

ArmRevB_Elbow ==
  << Constexpr(37, "int", "kElbowPin", Dec(<<2, 7>>)),
     Constexpr(38, "int", "kElbowLimitMin", Dec(<<1, 0, 0>>)),
     Constexpr(39, "int", "kElbowLimitMax", Dec(<<2, 9, 0>>)),
     Constexpr(40, "double", "kElbowRange", Dec(<<3, 0, 0>>)),
     Constexpr(41, "double", "kElbowStartPos", Dec(<<1, 5, 0>>)),
     Constexpr(42, "double", "kElbowFreq", Dec(<<5, 0>>)),
     Constexpr(43, "double", "kElbowPWMMin", Flt(<<2>>, <<5>>)),
     Constexpr(44, "double", "kElbowPWMMax", Flt(<<1, 2>>, <<5>>)) >>

ArmRevB_Shoulder ==
  << Constexpr(46, "uint32_t", "kMotorFreq", Dec(<<5, 0, 0, 0>>)),
     Constexpr(47, "uint32_t", "kShoulderSigPin", Dec(<<2, 5>>)),
     Constexpr(48, "uint32_t", "kShoulderDirPin", Dec(<<2, 6>>)),
     Constexpr(49, "double", "kShoulderLimitMin", Dec(<<5>>)),
     Constexpr(50, "double", "kShoulderLimitMax", Dec(<<7, 0>>)),
     Constexpr(51, "uint32_t", "kShoulderEnablePWMMin", Dec(<<0>>)),
     Constexpr(52, "uint32_t", "kShoulderEnablePWMMax", Dec(<<1, 0, 0>>)) >>

ArmRevB_Wrist ==
  << Constexpr(54, "uint32_t", "kWristLeftSigPin", Dec(<<0>>)),
     Constexpr(55, "uint32_t", "kWristLeftDirPin", Dec(<<2>>)),
     Constexpr(56, "uint32_t", "kWristRightSigPin", Dec(<<1, 6>>)),
     Constexpr(57, "uint32_t", "kWristRightDirPin", Dec(<<4>>)),
     Constexpr(58, "double", "kWristPitchLimitMin", Neg(Dec(<<9, 0>>))),
     Constexpr(59, "double", "kWristPitchLimitMax", Dec(<<9, 0>>)),
     Constexpr(60, "uint32_t", "kWristEnablePWMMin", Dec(<<0>>)),
     Constexpr(61, "uint32_t", "kWristEnablePWMMax", Dec(<<1, 0, 0>>)) >>

(* Variant: the repeated BEGINING_ADDR given another value. *)
ArmRevB_Repeat_Changed ==
  << DefineHex(65, "IMU_ADDRESS_SHOULDER", <<2, 9>>),
     DefineHex(68, "BEGINING_ADDR", <<0, 1>>),
     DefineHex(70, "BNO055_CHIP_ID", <<0, 0>>),
     DefineHex(71, "BNO055_ACC_ID", <<0, 1>>),
     DefineHex(72, "BNO055_PAGE_ID", <<0, 7>>) >>

ArmRevB_Repeat ==
  << DefineHex(65, "IMU_ADDRESS_SHOULDER", <<2, 9>>),
     DefineHex(68, "BEGINING_ADDR", <<0, 0>>),
     DefineHex(70, "BNO055_CHIP_ID", <<0, 0>>),
     DefineHex(71, "BNO055_ACC_ID", <<0, 1>>),
     DefineHex(72, "BNO055_PAGE_ID", <<0, 7>>) >>

ArmRevB_Bno055Regs ==
  << DefineHex(74, "BNO055_ACC_DATA_X_LSB", <<0, 8>>),
     DefineHex(75, "BNO055_ACC_DATA_X_MSB", <<0, 9>>),
     DefineHex(77, "BNO055_EUL_YAW_LSB", <<1, 10>>),
     DefineHex(78, "BNO055_EUL_YAW_MSB", <<1, 11>>),
     DefineHex(79, "BNO055_EUL_ROLL_LSB", <<1, 12>>),
     DefineHex(80, "BNO055_EUL_ROLL_MSB", <<1, 13>>),
     DefineHex(81, "BNO055_EUL_PITCH_LSB", <<1, 14>>),
     DefineHex(82, "BNO055_EUL_PITCH_MSB", <<1, 15>>),
     DefineHex(83, "BNO055_UNIT_SEL", <<3, 11>>),
     DefineHex(84, "BNO055_OPR_MODE", <<3, 13>>),
     DefineHex(85, "BNO055_PWR_MODE", <<3, 14>>),
     DefineHex(86, "BNO055_SYS_TRIGGER", <<3, 15>>) >>

ArmRevB_Mpu6050Regs ==
  << DefineHex(88, "MPU6050_ACCEL_XOUT_H", <<3, 11>>),
     DefineHex(89, "MPU6050_ACCEL_XOUT_L", <<3, 12>>),
     DefineHex(90, "MPU6050_ACCEL_YOUT_H", <<3, 13>>),
     DefineHex(91, "MPU6050_ACCEL_YOUT_L", <<3, 14>>),
     DefineHex(92, "MPU6050_ACCEL_ZOUT_H", <<3, 15>>),
     DefineHex(93, "MPU6050_ACCEL_ZOUT_L", <<4, 0>>),
     DefineHex(94, "MPU6050_TEMP_OUT_H", <<4, 1>>),
     DefineHex(95, "MPU6050_TEMP_OUT_L", <<4, 2>>),
     DefineHex(96, "MPU6050_GYRO_XOUT_H", <<4, 3>>),
     DefineHex(97, "MPU6050_GYRO_XOUT_L", <<4, 4>>),
     DefineHex(98, "MPU6050_GYRO_YOUT_H", <<4, 5>>),
     DefineHex(99, "MPU6050_GYRO_YOUT_L", <<4, 6>>),
     DefineHex(100, "MPU6050_GYRO_ZOUT_H", <<4, 7>>),
     DefineHex(101, "MPU6050_GYRO_ZOUT_L", <<4, 8>>) >>

ArmRevB_Mpu6050Addrs ==
  << DefineHex(103, "MPU6050_ADDR0", <<6, 8>>),
     DefineHex(104, "MPU6050_ADDR1", <<6, 9>>),
     DefineHex(105, "MPU6050_PWR_MGMT_1", <<6, 11>>) >>

ArmRevB_constants ==
  ArmRevB_Eeprom \o ArmRevB_Bno055Head \o ArmRevB_Actuator \o ArmRevB_Rotunda
    \o ArmRevB_Elbow \o ArmRevB_Shoulder \o ArmRevB_Wrist \o ArmRevB_Repeat
    \o ArmRevB_Bno055Regs \o ArmRevB_Mpu6050Regs \o ArmRevB_Mpu6050Addrs

(***************************************************************************)
(* Projects/IMU_Control/main/constants.h                                   *)
(***************************************************************************)
ImuControl_Eeprom ==
  << DefineHex(9, "EEPROM_SIZE", <<6, 4>>),
     DefineHex(11, "BEGINING_ADDR", <<0, 0>>) >>

ImuControl_Bno055Regs ==
  << DefineHex(13, "BNO055_CHIP_ID", <<0, 0>>),
     DefineHex(14, "BNO055_ACC_ID", <<0, 1>>),
     DefineHex(15, "BNO055_PAGE_ID", <<0, 7>>),
     DefineHex(17, "BNO055_ACC_DATA_X_LSB", <<0, 8>>),
     DefineHex(18, "BNO055_ACC_DATA_X_MSB", <<0, 9>>),
     DefineHex(20, "BNO055_EUL_YAW_LSB", <<1, 10>>),
     DefineHex(21, "BNO055_EUL_YAW_MSB", <<1, 11>>),
     DefineHex(22, "BNO055_EUL_ROLL_LSB", <<1, 12>>),
     DefineHex(23, "BNO055_EUL_ROLL_MSB", <<1, 13>>),
     DefineHex(24, "BNO055_EUL_PITCH_LSB", <<1, 14>>),
     DefineHex(25, "BNO055_EUL_PITCH_MSB", <<1, 15>>),
     DefineHex(26, "BNO055_UNIT_SEL", <<3, 11>>),
     DefineHex(27, "BNO055_OPR_MODE", <<3, 13>>),
     DefineHex(28, "BNO055_PWR_MODE", <<3, 14>>),
     DefineHex(29, "BNO055_SYS_TRIGGER", <<3, 15>>),
     DefineHex(32, "IMU_ADDRESS_SHOULDER", <<2, 9>>) >>

ImuControl_Mpu6050Regs ==
  << DefineHex(36, "MPU6050_ACCEL_XOUT_H", <<3, 11>>),
     DefineHex(37, "MPU6050_ACCEL_XOUT_L", <<3, 12>>),
     DefineHex(38, "MPU6050_ACCEL_YOUT_H", <<3, 13>>),
     DefineHex(39, "MPU6050_ACCEL_YOUT_L", <<3, 14>>),
     DefineHex(40, "MPU6050_ACCEL_ZOUT_H", <<3, 15>>),
     DefineHex(41, "MPU6050_ACCEL_ZOUT_L", <<4, 0>>),
     DefineHex(42, "MPU6050_TEMP_OUT_H", <<4, 1>>),
     DefineHex(43, "MPU6050_TEMP_OUT_L", <<4, 2>>),
     DefineHex(44, "MPU6050_GYRO_XOUT_H", <<4, 3>>),
     DefineHex(45, "MPU6050_GYRO_XOUT_L", <<4, 4>>),
     DefineHex(46, "MPU6050_GYRO_YOUT_H", <<4, 5>>),
     DefineHex(47, "MPU6050_GYRO_YOUT_L", <<4, 6>>),
     DefineHex(48, "MPU6050_GYRO_ZOUT_H", <<4, 7>>),
     DefineHex(49, "MPU6050_GYRO_ZOUT_L", <<4, 8>>) >>

(* Variant: both MPU6050 addresses the same. *)
ImuControl_Mpu6050Addrs_Same ==
  << DefineHex(51, "MPU6050_ADDR0", <<6, 8>>),
     DefineHex(52, "MPU6050_ADDR1", <<6, 8>>),
     DefineHex(53, "MPU6050_PWR_MGMT_1", <<6, 11>>) >>

ImuControl_Mpu6050Addrs ==
  << DefineHex(51, "MPU6050_ADDR0", <<6, 8>>),
     DefineHex(52, "MPU6050_ADDR1", <<6, 9>>),
     DefineHex(53, "MPU6050_PWR_MGMT_1", <<6, 11>>) >>

ImuControl_constants ==
  ImuControl_Eeprom \o ImuControl_Bno055Regs \o ImuControl_Mpu6050Regs
    \o ImuControl_Mpu6050Addrs

(***************************************************************************)
(* The two RTOStasks.h headers.  Lines 1-4 include library headers; the    *)
(* rest sits inside the include guard RTOS_TASKS_H_.  The linkage block    *)
(* braces sit inside #ifdef _cplusplus.                                    *)
(***************************************************************************)
RTOStasks_Prologue ==
  << Text(1), Text(2), Text(3), Text(4),
     Ifndef(6, "RTOS_TASKS_H_"),
     Define(7, "RTOS_TASKS_H_", NoTok),
     Ifdef(9, "_cplusplus"), Text(10), Endif(11) >>

FpiControl_Tasks ==
  << Proto(13, "vFPITask") >>

FpiControl_RTOStasks ==
  RTOStasks_Prologue \o FpiControl_Tasks
    \o << Ifdef(15, "_cplusplus"), Text(16), Endif(17), Endif(18) >>

(* Variant: vCountTask given a body in the header. *)
McServo_Tasks_WithBody ==
  << Line(13, "defn", "vCountTask", "void(void*)", NoTok),
     Proto(15, "vRotundaTask"),
     Proto(17, "vElbowTask"),
     Proto(19, "vShoulderTask"),
     Proto(21, "vDiffGearboxTask"),
     Proto(23, "vClawTask") >>

(* Variant: the claw's prototype left out. *)
McServo_Tasks_NoClaw ==
  << Proto(13, "vCountTask"),
     Proto(15, "vRotundaTask"),
     Proto(17, "vElbowTask"),
     Proto(19, "vShoulderTask"),
     Proto(21, "vDiffGearboxTask") >>

McServo_Tasks ==
  << Proto(13, "vCountTask"),
     Proto(15, "vRotundaTask"),
     Proto(17, "vElbowTask"),
     Proto(19, "vShoulderTask"),
     Proto(21, "vDiffGearboxTask"),
     Proto(23, "vClawTask") >>

McServo_RTOStasks ==
  RTOStasks_Prologue \o McServo_Tasks
    \o << Ifdef(25, "_cplusplus"), Text(26), Endif(27), Endif(28) >>

Content(f) ==
  CASE f = ArmRevB    -> ArmRevB_constants
    [] f = ImuControl -> ImuControl_constants
    [] f = FpiControl -> FpiControl_RTOStasks
    [] f = McServo    -> McServo_RTOStasks

(***************************************************************************)
(* Value of a literal.  DigitsVal folds the digits in the literal's base;  *)
(* IntVal is the value of an integer literal; Tenths is the value of a     *)
(* decimal literal in units of 1/10 (no literal of the headers has more    *)
(* than one digit after the point).                                        *)
(***************************************************************************)
(* Variant: the digits folded with the first digit least significant. *)
RECURSIVE DigitsVal_FirstDigitLowest(_, _)
DigitsVal_FirstDigitLowest(ds, base) ==
  IF ds = <<>> THEN 0
  ELSE DigitsVal_FirstDigitLowest(SubSeq(ds, 2, Len(ds)), base) * base + ds[1]

RECURSIVE DigitsVal(_, _)
DigitsVal(ds, base) ==
  IF ds = <<>> THEN 0
  ELSE DigitsVal(SubSeq(ds, 1, Len(ds) - 1), base) * base + ds[Len(ds)]

(* Variant: the 0x prefix ignored, the digits read in base ten. *)
IntVal_PrefixIgnored(tok) ==
  LET m == DigitsVal(tok.int, 10) IN IF tok.neg THEN 0 - m ELSE m

IntVal(tok) ==
  LET m == DigitsVal(tok.int, tok.base) IN IF tok.neg THEN 0 - m ELSE m

(* Variant: the unary minus of the initialiser dropped. *)
Tenths_SignDropped(tok) ==
  DigitsVal(tok.int, tok.base) * 10 + (IF tok.frac = <<>> THEN 0 ELSE tok.frac[1])

Tenths(tok) ==
  LET m == DigitsVal(tok.int, tok.base) * 10
             + (IF tok.frac = <<>> THEN 0 ELSE tok.frac[1])
  IN IF tok.neg THEN 0 - m ELSE m

(* The object a constexpr declaration creates: its type and the literal    *)
(* converted to that type (a double is kept in tenths).  Every integer     *)
(* initialiser of the headers is within the range of its type, so the      *)
(* conversion to int or uint32_t keeps the value.                          *)
ConstObject(ty, tok) ==
  [type |-> ty, val |-> IF ty = "double" THEN Tenths(tok) ELSE IntVal(tok)]

(* Usual arithmetic conversion of an object to double, in tenths. *)
AsDouble(c) == IF c.type = "double" THEN c.val ELSE c.val * 10

(***************************************************************************)
(* Reading state of the translation unit.                                  *)
(***************************************************************************)
Reading == file # None /\ pc <= Len(Content(file))
Cur     == Content(file)[pc]
Active  == \A i \in DOMAIN cond : cond[i]
Declares == {"define", "constexpr", "decl", "defn"}

Init ==
  /\ file = None
  /\ pc = 1
  /\ cond = <<>>
  /\ partial = FALSE
  /\ macros = <<>>
  /\ once = {}
  /\ consts = <<>>
  /\ bound = {}
  /\ declared = {}
  /\ complete = {}

(* A new translation unit starts with no macro, no object and no header    *)
(* marked as read once; what the headers were seen to bind stays recorded. *)
NewTU ==
  /\ file = None
  /\ <<macros, once, consts>> # <<(<<>>), {}, (<<>>)>>
  /\ macros' = <<>>
  /\ once' = {}
  /\ consts' = <<>>
  /\ UNCHANGED <<file, pc, cond, partial, bound, declared, complete>>

(* #include of one of the four headers; a header under #pragma once is     *)
(* not read a second time in the same translation unit.                    *)
Include(f) ==
  /\ file = None
  /\ f \notin once
  /\ file' = f
  /\ pc' = 1
  /\ partial' = FALSE
  /\ UNCHANGED <<cond, macros, once, consts, bound, declared, complete>>

PragmaOnceStep ==
  /\ Reading /\ Active /\ Cur.kind = "pragma_once"
  /\ once' = once \cup {file}
  /\ pc' = pc + 1
  /\ UNCHANGED <<file, cond, partial, macros, consts, bound, declared, complete>>

(* #define binds the name to the replacement text, replacing an earlier    *)
(* binding of the name.                                                    *)
DefineStep ==
  /\ Reading /\ Active /\ Cur.kind = "define"
  /\ macros' = (Cur.name :> Cur.tok) @@ macros
  /\ bound' = IF Cur.tok = NoTok THEN bound
              ELSE bound \cup {[file |-> file, line |-> Cur.line,
                                name |-> Cur.name, val |-> IntVal(Cur.tok)]}
  /\ pc' = pc + 1
  /\ UNCHANGED <<file, cond, partial, once, consts, declared, complete>>

ConstexprStep ==
  /\ Reading /\ Active /\ Cur.kind = "constexpr"
  /\ consts' = (Cur.name :> ConstObject(Cur.type, Cur.tok)) @@ consts
  /\ pc' = pc + 1
  /\ UNCHANGED <<file, cond, partial, macros, once, bound, declared, complete>>

(* A function declaration (kind "decl") or definition (kind "defn"). *)
DeclareStep ==
  /\ Reading /\ Active /\ Cur.kind \in {"decl", "defn"}
  /\ declared' = declared \cup {[file |-> file, line |-> Cur.line,
                                 name |-> Cur.name, type |-> Cur.type,
                                 body |-> (Cur.kind = "defn")]}
  /\ pc' = pc + 1
  /\ UNCHANGED <<file, cond, partial, macros, once, consts, bound, complete>>

(* #ifndef NAME / #ifdef NAME open a conditional group. *)
IfStep ==
  /\ Reading /\ Cur.kind \in {"ifndef", "ifdef"}
  /\ cond' = Append(cond, Active /\ ((Cur.kind = "ifdef") <=> (Cur.name \in DOMAIN macros)))
  /\ pc' = pc + 1
  /\ UNCHANGED <<file, partial, macros, once, consts, bound, declared, complete>>

EndifStep ==
  /\ Reading /\ Cur.kind = "endif"
  /\ cond # <<>>
  /\ cond' = SubSeq(cond, 1, Len(cond) - 1)
  /\ pc' = pc + 1
  /\ UNCHANGED <<file, partial, macros, once, consts, bound, declared, complete>>

(* A line that binds nothing in the tables (library #include). *)
TextStep ==
  /\ Reading /\ Active /\ Cur.kind = "text"
  /\ pc' = pc + 1
  /\ UNCHANGED <<file, cond, partial, macros, once, consts, bound, declared, complete>>

(* A line inside a conditional group that is not taken. *)
SkipStep ==
  /\ Reading /\ ~Active /\ Cur.kind \notin {"ifndef", "ifdef", "endif"}
  /\ partial' = (partial \/ Cur.kind \in Declares)
  /\ pc' = pc + 1
  /\ UNCHANGED <<file, cond, macros, once, consts, bound, declared, complete>>

EndOfFile ==
  /\ file # None /\ pc > Len(Content(file))
  /\ complete' = IF partial THEN complete ELSE complete \cup {file}
  /\ file' = None
  /\ pc' = 1
  /\ partial' = FALSE
  /\ UNCHANGED <<cond, macros, once, consts, bound, declared>>

Next ==
  \/ NewTU
  \/ \E f \in Headers : Include(f)
  \/ PragmaOnceStep
  \/ DefineStep
  \/ ConstexprStep
  \/ DeclareStep
  \/ IfStep
  \/ EndifStep
  \/ TextStep
  \/ SkipStep
  \/ EndOfFile

Spec == Init /\ [][Next]_vars

(***************************************************************************)
(* What a header was seen to bind.                                         *)
(***************************************************************************)
BoundBy(f)     == {b \in bound : b.file = f}
NamesOf(f)     == {b.name : b \in BoundBy(f)}
ValuesOf(f, n) == {b.val : b \in {c \in BoundBy(f) : c.name = n}}

(* C1: in both constants.h headers EEPROM_SIZE is 100 and BEGINING_ADDR is  *)
(* 0, so the EEPROM region from the base address is the addresses 0..99.    *)
EepromRegion(f) ==
  {base + i : <<base, i>> \in
     UNION {{<<b, k>> : k \in 0..(size - 1)} :
              <<b, size>> \in ValuesOf(f, "BEGINING_ADDR") \X ValuesOf(f, "EEPROM_SIZE")}}

C1_EepromRegion ==
  \A f \in complete \cap ConstantsHeaders :
     /\ ValuesOf(f, "EEPROM_SIZE") = {100}
     /\ ValuesOf(f, "BEGINING_ADDR") = {0}
     /\ EepromRegion(f) = 0..99

C1_Witness ==
  /\ ConstantsHeaders \subseteq complete
  /\ \A f \in ConstantsHeaders : EepromRegion(f) # {}

(* C3: every #define of a name binds the same value as every other #define *)
(* of that name, in the same header or in another one, and the value the   *)
(* translation unit currently has for a name is that value.                *)
C3_OneValuePerName ==
  /\ \A b1, b2 \in bound : b1.name = b2.name => b1.val = b2.val
  /\ \A n \in DOMAIN macros :
       macros[n] # NoTok =>
         \A b \in bound : b.name = n => b.val = IntVal(macros[n])

C3_Witness ==
  /\ \E b1, b2 \in bound :
       b1.name = b2.name /\ b1.file = b2.file /\ b1.line # b2.line
  /\ \E b1, b2 \in bound :
       b1.name = b2.name /\ b1.file = ArmRevB /\ b2.file = ImuControl
  /\ "BEGINING_ADDR" \in DOMAIN macros

(***************************************************************************)
(* Names of the IMU chips' macros, by the chip prefix of the name.         *)
(***************************************************************************)
Chips == {"BNO055", "MPU6050"}

AddrNames(chip) ==
  IF chip = "BNO055" THEN {"BNO055_ADDR0", "BNO055_ADDR1"}
  ELSE {"MPU6050_ADDR0", "MPU6050_ADDR1"}

RegisterNames(chip) ==
  IF chip = "BNO055"
  THEN {"BNO055_CHIP_ID", "BNO055_ACC_ID", "BNO055_PAGE_ID",
        "BNO055_ACC_DATA_X_LSB", "BNO055_ACC_DATA_X_MSB",
        "BNO055_EUL_YAW_LSB", "BNO055_EUL_YAW_MSB",
        "BNO055_EUL_ROLL_LSB", "BNO055_EUL_ROLL_MSB",
        "BNO055_EUL_PITCH_LSB", "BNO055_EUL_PITCH_MSB",
        "BNO055_UNIT_SEL", "BNO055_OPR_MODE", "BNO055_PWR_MODE",
        "BNO055_SYS_TRIGGER"}
  ELSE {"MPU6050_ACCEL_XOUT_H", "MPU6050_ACCEL_XOUT_L",
        "MPU6050_ACCEL_YOUT_H", "MPU6050_ACCEL_YOUT_L",
        "MPU6050_ACCEL_ZOUT_H", "MPU6050_ACCEL_ZOUT_L",
        "MPU6050_TEMP_OUT_H", "MPU6050_TEMP_OUT_L",
        "MPU6050_GYRO_XOUT_H", "MPU6050_GYRO_XOUT_L",
        "MPU6050_GYRO_YOUT_H", "MPU6050_GYRO_YOUT_L",
        "MPU6050_GYRO_ZOUT_H", "MPU6050_GYRO_ZOUT_L",
        "MPU6050_PWR_MGMT_1"}

AllAddrNames == UNION {AddrNames(chip) : chip \in Chips}

DefinesRegisterMap(f, chip) == NamesOf(f) \cap RegisterNames(chip) # {}
DefinesBothAddrs(f, chip)   == AddrNames(chip) \subseteq NamesOf(f)

(* The chip addresses defined are pairwise distinct and 7-bit. *)
AddrsDistinctAndValid ==
  /\ \A b1, b2 \in bound :
       (b1.name \in AllAddrNames /\ b2.name \in AllAddrNames /\ b1.name # b2.name)
          => b1.val # b2.val
  /\ \A b \in bound : b.name \in AllAddrNames => (b.val >= 0 /\ b.val < 128)

(* C2 as stated: every constants.h header that defines the register map of *)
(* an IMU chip also defines ADDR0 and ADDR1 of that chip, and the chip     *)
(* addresses defined are pairwise distinct and below 0x80.                 *)
C2_Original ==
  /\ \A f \in complete \cap ConstantsHeaders : \A chip \in Chips :
       DefinesRegisterMap(f, chip) => DefinesBothAddrs(f, chip)
  /\ AddrsDistinctAndValid

(* C2 amended: the above holds of every header and chip except the BNO055  *)
(* in IMU_Control/constants.h, which defines the BNO055 register map, no   *)
(* BNO055_ADDR0 or BNO055_ADDR1, and the single address                    *)
(* IMU_ADDRESS_SHOULDER = 0x29.                                            *)
C2_Amended ==
  /\ \A f \in complete \cap ConstantsHeaders : \A chip \in Chips :
       DefinesRegisterMap(f, chip) =>
         IF f = ImuControl /\ chip = "BNO055"
         THEN /\ AddrNames(chip) \cap NamesOf(f) = {}
              /\ ValuesOf(f, "IMU_ADDRESS_SHOULDER") = {41}
         ELSE DefinesBothAddrs(f, chip)
  /\ AddrsDistinctAndValid

C2_Witness ==
  /\ ConstantsHeaders \subseteq complete
  /\ \A f \in ConstantsHeaders : \A chip \in Chips : DefinesRegisterMap(f, chip)
  /\ AllAddrNames \subseteq NamesOf(ArmRevB)

(***************************************************************************)
(* Task entry points.                                                      *)
(***************************************************************************)
SevenTasks ==
  {"vFPITask", "vCountTask", "vRotundaTask", "vElbowTask", "vShoulderTask",
   "vDiffGearboxTask", "vClawTask"}

DeclaredNames == {d.name : d \in declared}

(* C4: the two RTOStasks.h headers together declare exactly the seven task *)
(* entry points, each taking one void pointer and returning nothing, each  *)
(* once, and none with a body.                                             *)
C4_SevenPrototypes ==
  /\ \A d \in declared :
       /\ d.file \in TaskHeaders
       /\ d.name \in SevenTasks
       /\ d.type = "void(void*)"
       /\ ~d.body
  /\ TaskHeaders \subseteq complete =>
       /\ DeclaredNames = SevenTasks
       /\ Cardinality(declared) = 7

C4_Witness ==
  /\ TaskHeaders \subseteq complete
  /\ \A f \in TaskHeaders : \E d \in declared : d.file = f

(* The joints the spec lists, and the joint each task name mentions        *)
(* (vCountTask and vFPITask mention none).                                 *)
Joints == {"rotunda", "elbow", "shoulder", "wrist", "claw", "gearbox"}

JointsNamedBy(task) ==
  CASE task = "vRotundaTask"     -> {"rotunda"}
    [] task = "vElbowTask"       -> {"elbow"}
    [] task = "vShoulderTask"    -> {"shoulder"}
    [] task = "vDiffGearboxTask" -> {"gearbox"}
    [] task = "vClawTask"        -> {"claw"}
    [] OTHER                     -> {}

TasksOf(j) == {d \in declared : j \in JointsNamedBy(d.name)}

(* C5 as stated: each of the six joints has exactly one declared task      *)
(* entry point and no two joints share a task.                             *)
C5_Original ==
  McServo \in complete =>
    /\ \A j \in Joints : Cardinality(TasksOf(j)) = 1
    /\ \A j1, j2 \in Joints : j1 # j2 => TasksOf(j1) \cap TasksOf(j2) = {}

(* C5 amended: each of rotunda, elbow, shoulder, claw and gearbox has      *)
(* exactly one declared task entry point, no two of them share a task, and *)
(* the wrist has no declared task entry point.                             *)
C5_Amended ==
  McServo \in complete =>
    /\ \A j \in Joints \ {"wrist"} : Cardinality(TasksOf(j)) = 1
    /\ TasksOf("wrist") = {}
    /\ \A j1, j2 \in Joints : j1 # j2 => TasksOf(j1) \cap TasksOf(j2) = {}

C5_Witness ==
  /\ McServo \in complete
  /\ "kWristLeftSigPin" \in DOMAIN consts
  /\ Cardinality({d \in declared : d.file = McServo}) = 6

(***************************************************************************)
(* Joint bounds of Arm_Rev_B/constants.h.                                  *)
(***************************************************************************)
Defined(n) == n \in DOMAIN consts
Real(n)    == AsDouble(consts[n])

MinMaxPairs ==
  { <<"kRotundaPosMin", "kRotundaPosmax">>,
    <<"kRotundaPWMMin", "kRotundaPWMMax">>,
    <<"kElbowLimitMin", "kElbowLimitMax">>,
    <<"kElbowPWMMin", "kElbowPWMMax">>,
    <<"kShoulderLimitMin", "kShoulderLimitMax">>,
    <<"kShoulderEnablePWMMin", "kShoulderEnablePWMMax">>,
    <<"kWristPitchLimitMin", "kWristPitchLimitMax">>,
    <<"kWristEnablePWMMin", "kWristEnablePWMMax">> }

(* C6: every min/max pair of a joint has the minimum strictly below the    *)
(* maximum, and the elbow limits lie inside 0..kElbowRange.                *)
C6_BoundsOrdered ==
  /\ \A p \in MinMaxPairs :
       (Defined(p[1]) /\ Defined(p[2])) => Real(p[1]) < Real(p[2])
  /\ Defined("kElbowLimitMin") => Real("kElbowLimitMin") >= 0
  /\ (Defined("kElbowLimitMax") /\ Defined("kElbowRange")) =>
       Real("kElbowLimitMax") <= Real("kElbowRange")

C6_Witness ==
  /\ \A p \in MinMaxPairs : Defined(p[1]) /\ Defined(p[2])
  /\ Defined("kElbowRange")
  /\ Real("kWristPitchLimitMin") < 0

StartValues ==
  { <<"kRotundaStartPos", "kRotundaPosMin", "kRotundaPosmax">>,
    <<"kRotundaStartDuty", "kRotundaPWMMin", "kRotundaPWMMax">>,
    <<"kElbowStartPos", "kElbowLimitMin", "kElbowLimitMax">> }

(* C7: every start value of a joint lies within that joint's own bounds.   *)
C7_StartWithinBounds ==
  \A s \in StartValues :
     (Defined(s[1]) /\ Defined(s[2]) /\ Defined(s[3])) =>
        (Real(s[2]) <= Real(s[1]) /\ Real(s[1]) <= Real(s[3]))

(***************************************************************************)
(* GPIO pins: two are macros, eight are constexpr objects.                 *)
(***************************************************************************)
MacroPins == {"act_PHASE", "act_ENABLE"}
ConstPins ==
  {"kRotundaPin", "kElbowPin", "kShoulderSigPin", "kShoulderDirPin",
   "kWristLeftSigPin", "kWristLeftDirPin", "kWristRightSigPin",
   "kWristRightDirPin"}
PinNames == MacroPins \cup ConstPins

PinDefined(n) == IF n \in MacroPins THEN n \in DOMAIN macros ELSE Defined(n)
PinVal(n)     == IF n \in MacroPins THEN IntVal(macros[n]) ELSE consts[n].val

(* C8: the ten GPIO pin assignments of Arm_Rev_B are pairwise distinct.    *)
C8_PinsDistinct ==
  \A p, q \in PinNames :
     (p # q /\ PinDefined(p) /\ PinDefined(q)) => PinVal(p) # PinVal(q)

C8_Witness ==
  /\ \A p \in PinNames : PinDefined(p)
  /\ Cardinality(PinNames) = 10

(***************************************************************************)
(* 16-bit sensor values: <<first offset name, second offset name>>.        *)
(***************************************************************************)
Bno055Pairs ==
  { <<"BNO055_ACC_DATA_X_LSB", "BNO055_ACC_DATA_X_MSB">>,
    <<"BNO055_EUL_YAW_LSB", "BNO055_EUL_YAW_MSB">>,
    <<"BNO055_EUL_ROLL_LSB", "BNO055_EUL_ROLL_MSB">>,
    <<"BNO055_EUL_PITCH_LSB", "BNO055_EUL_PITCH_MSB">> }

Mpu6050Pairs ==
  { <<"MPU6050_ACCEL_XOUT_H", "MPU6050_ACCEL_XOUT_L">>,
    <<"MPU6050_ACCEL_YOUT_H", "MPU6050_ACCEL_YOUT_L">>,
    <<"MPU6050_ACCEL_ZOUT_H", "MPU6050_ACCEL_ZOUT_L">>,
    <<"MPU6050_TEMP_OUT_H", "MPU6050_TEMP_OUT_L">>,
    <<"MPU6050_GYRO_XOUT_H", "MPU6050_GYRO_XOUT_L">>,
    <<"MPU6050_GYRO_YOUT_H", "MPU6050_GYRO_YOUT_L">>,
    <<"MPU6050_GYRO_ZOUT_H", "MPU6050_GYRO_ZOUT_L">> }

EulerNames == UNION {{p[1], p[2]} : p \in Bno055Pairs}
                \ {"BNO055_ACC_DATA_X_LSB", "BNO055_ACC_DATA_X_MSB"}
Mpu6050DataNames == UNION {{p[1], p[2]} : p \in Mpu6050Pairs}

OffsetsOf(f, names) == UNION {ValuesOf(f, n) : n \in names}

Consecutive(f, p) ==
  \E v \in ValuesOf(f, p[1]) :
     ValuesOf(f, p[1]) = {v} /\ ValuesOf(f, p[2]) = {v + 1}

(* C9: in both constants.h headers every 16-bit value occupies two         *)
(* consecutive offsets, the Euler registers cover 0x1A..0x1F and the       *)
(* MPU6050 data registers cover 0x3B..0x48 with no offset used twice.      *)
C9_RegisterBlocks ==
  \A f \in complete \cap ConstantsHeaders :
     /\ \A p \in Bno055Pairs \cup Mpu6050Pairs : Consecutive(f, p)
     /\ OffsetsOf(f, EulerNames) = 26..31
     /\ OffsetsOf(f, Mpu6050DataNames) = 59..72
     /\ Cardinality(Mpu6050DataNames) = 14
     /\ \A n, m \in Mpu6050DataNames :
          n # m => ValuesOf(f, n) \cap ValuesOf(f, m) = {}

C9_Witness ==
  /\ ConstantsHeaders \subseteq complete
  /\ \A f \in ConstantsHeaders :
       (EulerNames \cup Mpu6050DataNames) \subseteq NamesOf(f)

====
